---- MODULE Spec2Model ----
(***************************************************************************)
(* Model of the Nabaztag ears driver, src/tagtagtag-ears.c.                *)
(*                                                                         *)
(* One ear (struct tagtagtagear_data) is modelled; the two ears share no   *)
(* state.  The struct is the record `priv'; every C function that takes    *)
(* the struct is an operator from the struct (and its inputs) to the       *)
(* struct after the call.  The encoder level, the time between two         *)
(* falling edges and the bytes a client writes are inputs of the actions.  *)
(* Timestamps are abstracted to "never" (0) or "some time" (1); the        *)
(* elapsed time since the previous edge is an input of the edge handler.   *)
(* Handlers run to completion (one action per handler invocation).         *)
(* User buffers are assumed readable and writable (copy_from_user and      *)
(* copy_to_user succeed); the file offset is not modelled.                 *)
(***************************************************************************)
EXTENDS Integers, Sequences, FiniteSets, TLC

\* ----------------------------------------------------------------------
\* Program constants
\* ----------------------------------------------------------------------
NUM_HOLES == 17
EARS_OFFZERO == 3

testing == "testing"
detecting == "detecting"
idle == "idle"
running == "running"
broken == "broken"

goto_position == "goto_position"
read_position == "read_position"

EFAULT == 14
EBUSY == 16
ERESTARTSYS == 512

\* command bytes and the 'moved' marker
CmdNop == 46
CmdPlus == 43
CmdMinus == 45
CmdGotoFwd == 62
CmdGotoBwd == 60
CmdGet == 63
CmdDetect == 33
MovedMarker == 109

\* ----------------------------------------------------------------------
\* Bounds of the model
\* ----------------------------------------------------------------------
\* the parameter bytes written are 0 .. MaxParam
MaxParam == 1
\* at most MaxLong long deltas are delivered during the forward calibration
MaxLong == 1
\* a detection meets the gap at its MaxHoles-th counted edge at the latest
MaxHoles == 17
\* the two inter-edge times (in units of time) the encoder produces
DeltaShort == 2
DeltaLong == 6
\* the calibration runs analysed hold deltas of 1 .. MaxDelta
MaxDelta == 4
\* the absolute moves are asked to go to positions around MaxGoto
MaxGoto == 17

Params == 0 .. MaxParam
Deltas == {DeltaShort, DeltaLong}
ParamCmds == {CmdPlus, CmdMinus, CmdGotoFwd, CmdGotoBwd}
CmdBytes == ParamCmds \cup {CmdNop, CmdGet, CmdDetect}
\* the buffers given to write: nothing, a command without parameter (or the
\* byte 0, which is no command), the same followed by a byte that is not
\* consumed, a command with its parameter
Bufs ==
    {<<>>} \cup {<<c>> : c \in {0, CmdNop, CmdGet, CmdDetect}} \cup {<<CmdNop, 0>>}
    \cup {<<c, n>> : c \in ParamCmds, n \in Params}
Lens == {0, 1}

\* ----------------------------------------------------------------------
\* C integer types
\* ----------------------------------------------------------------------
Pow2(w) == 2 ^ w
\* value stored in an unsigned bit-field (or unsigned type) of w bits
UBits(v, w) == v % Pow2(w)
\* value stored in a signed bit-field (or signed type) of w bits
SBits(v, w) == LET u == v % Pow2(w) IN IF u >= Pow2(w - 1) THEN u - Pow2(w) ELSE u

VARIABLES
    priv,   \* struct tagtagtagear_data
    rpc,    \* the reading thread: "none" or "wait" (in wait_event of ear_read)
    wpc,    \* the writing thread: "none" or "wait" (in wait_event of ear_write)
    last,   \* the last event processed, its inputs and its return value
    exp,    \* where the relative moves issued so far should end (pos, or -1 when
            \* nothing is expected), and whether one was issued (rel)
    weak,   \* the last forward calibration had a gap under 1.5 times the rest
    opc,    \* the threads inside ear_open: "none", "checked" (opened was read
            \* as 0), "opened" (returned 0) or "busy" (returned -EBUSY)
    wlocal  \* the locals of the writing thread when it is inside a command
            \* (wpc = "sampled"): kbuffer[0], kbuffer[1] and position

vars == <<priv, rpc, wpc, last, exp, weak, opc, wlocal>>

\* ----------------------------------------------------------------------
\* Motors
\* ----------------------------------------------------------------------
MotorForward == <<1, 0>>
MotorBackward == <<0, 1>>
MotorStop == <<0, 0>>

start_motors_backward(p) == [p EXCEPT !.motor_gpios = MotorBackward]

start_motors_forward(p) == [p EXCEPT !.motor_gpios = MotorForward]

stop_motors(p) == [p EXCEPT !.motor_gpios = MotorStop]

\* ----------------------------------------------------------------------
\* Broken timer (broken_timer is TRUE while the timer is pending)
\* ----------------------------------------------------------------------
del_timer_sync(p) == [p EXCEPT !.broken_timer = FALSE]

mod_timer(p) == [p EXCEPT !.broken_timer = TRUE]

reset_broken_timer(p) == mod_timer(del_timer_sync(p))

\* ----------------------------------------------------------------------
\* State transitions
\* ----------------------------------------------------------------------
\* position_add with the upper wrap off by one
position_add_off(position, increment) ==
    LET result == position + increment
    IN  IF result < 0 THEN result + NUM_HOLES
        ELSE IF result > NUM_HOLES THEN result - NUM_HOLES
        ELSE result

position_add(position, increment) ==
    LET result == position + increment
    IN  IF result < 0 THEN result + NUM_HOLES
        ELSE IF result >= NUM_HOLES THEN result - NUM_HOLES
        ELSE result

\* the union after memset(0), seen through each of its variants
ZeroTesting ==
    [forward_position |-> 0, holes_count |-> 0, last_hole_time |-> 0,
     hole_deltas |-> [ix \in 0 .. NUM_HOLES - 1 |-> 0]]
ZeroDetecting ==
    [new_position |-> 0, direction |-> 0, holes_count |-> 0,
     post_state |-> goto_position, last_hole_time |-> 0]
ZeroIdle == [position |-> 0]
ZeroRunning == [position |-> 0, direction |-> 0, count |-> 0]
ZeroBroken == [zeroed |-> TRUE]

\* the struct after the call; the value returned is its state.position
\* MUTANT: the marker published whether or not a result is pending
get_idle_position_loud(p, is_high) ==
    IF is_high /\ p.state.position # -1
    THEN [p EXCEPT !.state.position = -1,
                   !.read_result_available = 1,
                   !.read_result = MovedMarker]
    ELSE p

get_idle_position(p, is_high) ==
    IF is_high /\ p.state.position # -1
    THEN IF p.read_result_available = 0
         THEN [p EXCEPT !.state.position = -1,
                        !.read_result_available = 1,
                        !.read_result = MovedMarker]
         ELSE [p EXCEPT !.state.position = -1]
    ELSE p

transition_to_testing(p) ==
    start_motors_forward(reset_broken_timer(
        [p EXCEPT !.state_e = testing, !.state = ZeroTesting]))

transition_to_broken(p) ==
    [p EXCEPT !.state_e = broken, !.state = ZeroBroken]

transition_to_idle(p, position) ==
    [p EXCEPT !.state_e = idle,
              !.state = [ZeroIdle EXCEPT !.position = SBits(position, 6)]]

\* transition_to_running that leaves the timer pending when delta is zero
transition_to_running_armed(p, position, delta) ==
    LET p1 == reset_broken_timer(
                [p EXCEPT !.state_e = running,
                          !.state = [ZeroRunning EXCEPT !.position = SBits(position, 6)]])
    IN  IF delta > 0
        THEN start_motors_forward(
                [p1 EXCEPT !.state.count = UBits(delta, 8),
                           !.state.direction = SBits(1, 2)])
        ELSE IF delta < 0
        THEN start_motors_backward(
                [p1 EXCEPT !.state.count = UBits(-delta, 8),
                           !.state.direction = SBits(-1, 2)])
        ELSE LET p2 == stop_motors(p1)
                 p3 == IF p2.read_result_available = 1
                       THEN [p2 EXCEPT !.read_result = SBits(position, 8)]
                       ELSE p2
             IN  transition_to_idle(p3, position)

\* MUTANT: the zero-step branch leaves the motors as they are
transition_to_running_nostop(p, position, delta) ==
    LET p1 == reset_broken_timer(
                [p EXCEPT !.state_e = running,
                          !.state = [ZeroRunning EXCEPT !.position = SBits(position, 6)]])
    IN  IF delta > 0
        THEN start_motors_forward(
                [p1 EXCEPT !.state.count = UBits(delta, 8),
                           !.state.direction = SBits(1, 2)])
        ELSE IF delta < 0
        THEN start_motors_backward(
                [p1 EXCEPT !.state.count = UBits(-delta, 8),
                           !.state.direction = SBits(-1, 2)])
        ELSE LET p2 == del_timer_sync(p1)
                 p3 == IF p2.read_result_available = 1
                       THEN [p2 EXCEPT !.read_result = SBits(position, 8)]
                       ELSE p2
             IN  transition_to_idle(p3, position)

transition_to_running(p, position, delta) ==
    LET p1 == reset_broken_timer(
                [p EXCEPT !.state_e = running,
                          !.state = [ZeroRunning EXCEPT !.position = SBits(position, 6)]])
    IN  IF delta > 0
        THEN start_motors_forward(
                [p1 EXCEPT !.state.count = UBits(delta, 8),
                           !.state.direction = SBits(1, 2)])
        ELSE IF delta < 0
        THEN start_motors_backward(
                [p1 EXCEPT !.state.count = UBits(-delta, 8),
                           !.state.direction = SBits(-1, 2)])
        ELSE LET p2 == stop_motors(del_timer_sync(p1))
                 p3 == IF p2.read_result_available = 1
                       THEN [p2 EXCEPT !.read_result = SBits(position, 8)]
                       ELSE p2
             IN  transition_to_idle(p3, position)

transition_to_detecting(p, post_state, direction, new_position, is_high) ==
    LET p1 == [p EXCEPT !.state_e = detecting,
                        !.state = [ZeroDetecting EXCEPT
                                      !.post_state = post_state,
                                      !.direction = SBits(direction, 2),
                                      !.new_position = UBits(new_position, 5),
                                      !.last_hole_time = IF is_high THEN 0 ELSE 1]]
        p2 == reset_broken_timer(p1)
    IN  IF direction > 0 THEN start_motors_forward(p2) ELSE start_motors_backward(p2)

\* ----------------------------------------------------------------------
\* IRQ handler.  delta is the time elapsed since the previous falling edge
\* (ktime_us_delta(now, last_hole_time)), is_high the encoder level read
\* by gpiod_get_value.
\* ----------------------------------------------------------------------
Min2(a, b) == IF a < b THEN a ELSE b
Max2(a, b) == IF a > b THEN a ELSE b

\* the loop "for (ix = 2; ix < NUM_HOLES; ix++)" of irq_handler_testing;
\* acc holds the locals min, max, gap and gap_ix.  The locals after one
\* iteration are bound to next, so that each iteration is evaluated once.
RECURSIVE scan_deltas(_, _, _)
scan_deltas(hole_deltas, ix, acc) ==
    IF ix >= NUM_HOLES THEN acc
    ELSE LET this_delta == hole_deltas[ix]
             iteration == IF acc.min > this_delta
                          THEN [acc EXCEPT !.min = this_delta]
                          ELSE IF acc.gap < this_delta
                          THEN [acc EXCEPT !.max = acc.gap, !.gap = this_delta, !.gap_ix = ix]
                          ELSE IF acc.max < this_delta
                          THEN [acc EXCEPT !.max = this_delta]
                          ELSE acc
         IN  CHOOSE locals \in {scan_deltas(hole_deltas, ix + 1, next) :
                                    next \in {iteration}} : TRUE

\* the locals min, max, gap and gap_ix at the end of the forward test
analyse_deltas(hole_deltas) ==
    LET first_delta == hole_deltas[0]
        second_delta == hole_deltas[1]
    IN  scan_deltas(hole_deltas, 2,
            [min |-> Min2(first_delta, second_delta),
             max |-> Min2(first_delta, second_delta),
             gap |-> Max2(first_delta, second_delta),
             gap_ix |-> 0])

\* end of forward testing: holes_count has just reached NUM_HOLES
testing_forward_end(p) ==
    LET p1 == stop_motors(del_timer_sync(p))
        a == analyse_deltas(p1.state.hole_deltas)
        half_max == a.max \div 2
    IN  IF a.gap < a.max + half_max
        THEN transition_to_broken(p1)
        ELSE LET fp0 == NUM_HOLES - 1 - a.gap_ix - EARS_OFFZERO
                 forward_position == IF fp0 < 0 THEN fp0 + NUM_HOLES ELSE fp0
             IN  reset_broken_timer(start_motors_backward(
                    [p1 EXCEPT !.state.forward_position = SBits(forward_position, 6),
                               !.detect_boundary_us = (a.max + a.gap) \div 2]))

\* end of backward testing: the edge after the NUM_HOLES forward deltas
testing_backward_end(p, backward_delta) ==
    LET p1 == stop_motors(del_timer_sync(p))
        is_broken == IF p1.state.forward_position = NUM_HOLES - EARS_OFFZERO
                     THEN backward_delta < p1.detect_boundary_us
                     ELSE backward_delta > p1.detect_boundary_us
        position == position_add(p1.state.forward_position, -1)
    IN  IF ~is_broken
        THEN transition_to_idle(
                IF p1.read_result_available = 1
                THEN [p1 EXCEPT !.read_result = SBits(position, 8)]
                ELSE p1,
                position)
        ELSE transition_to_broken(p1)

irq_handler_testing(p, delta) ==
    IF p.state.last_hole_time = 0
    THEN reset_broken_timer([p EXCEPT !.state.last_hole_time = 1])
    ELSE IF p.state.holes_count < NUM_HOLES
    THEN LET p1 == [p EXCEPT !.state.hole_deltas[p.state.holes_count] = delta,
                             !.state.last_hole_time = 1,
                             !.state.holes_count = UBits(p.state.holes_count + 1, 5)]
         IN  IF p1.state.holes_count = NUM_HOLES
             THEN testing_forward_end(p1)
             ELSE reset_broken_timer(p1)
    ELSE testing_backward_end(p, delta)

irq_handler_idle(p) ==
    IF p.read_result_available = 0
    THEN [p EXCEPT !.state.position = -1,
                   !.read_result_available = 1,
                   !.read_result = MovedMarker]
    ELSE [p EXCEPT !.state.position = -1]

irq_handler_running(p, is_high) ==
    LET p1 == IF p.state.position # -1
              THEN [p EXCEPT !.state.position =
                        SBits(position_add(p.state.position, p.state.direction), 6)]
              ELSE p
        p2 == [p1 EXCEPT !.state.count = UBits(p1.state.count - 1, 8)]
    IN  IF p2.state.count = 0
        THEN LET p3 == stop_motors(del_timer_sync(p2))
             IN  IF is_high
                 THEN IF p3.state.direction > 0
                      THEN reset_broken_timer(start_motors_backward(
                              [p3 EXCEPT !.state.count = 1,
                                         !.state.direction = SBits(-1, 2),
                                         !.state.position =
                                            SBits(position_add(p3.state.position, 1), 6)]))
                      ELSE reset_broken_timer(start_motors_backward(
                              [p3 EXCEPT !.state.count = 1,
                                         !.state.direction = SBits(1, 2),
                                         !.state.position =
                                            SBits(position_add(p3.state.position, -1), 6)]))
                 ELSE transition_to_idle(p3, p3.state.position)
        ELSE reset_broken_timer(p2)

\* the "minimize movement" loops of irq_handler_detecting
\* MUTANT: only the first of the two loops
minimize_movement_forward(running_delta) ==
    IF running_delta > 9 THEN running_delta - NUM_HOLES ELSE running_delta

RECURSIVE minimize_movement(_)
minimize_movement(running_delta) ==
    IF running_delta > 9 THEN minimize_movement(running_delta - NUM_HOLES)
    ELSE IF running_delta < -9 THEN minimize_movement(running_delta + NUM_HOLES)
    ELSE running_delta

\* the branch "delta > detect_boundary_us" of irq_handler_detecting;
\* p.state.holes_count has been incremented
detecting_found_gap(p) ==
    IF p.state.post_state = read_position
    THEN LET pp0 == NUM_HOLES - p.state.holes_count - EARS_OFFZERO
             previous_position == IF pp0 < 0 THEN pp0 + NUM_HOLES ELSE pp0
             p1 == [p EXCEPT !.read_result_available = 1,
                             !.read_result = SBits(previous_position, 8)]
             running_delta == position_add(previous_position, EARS_OFFZERO)
         IN  transition_to_running(p1, NUM_HOLES - EARS_OFFZERO,
                                   minimize_movement(running_delta))
    ELSE LET rd0 == position_add(p.state.new_position, EARS_OFFZERO)
             running_delta == IF p.state.direction < 0 THEN rd0 - NUM_HOLES ELSE rd0
         IN  transition_to_running(p, NUM_HOLES - EARS_OFFZERO,
                                   minimize_movement(running_delta))

irq_handler_detecting(p, delta) ==
    IF p.state.last_hole_time = 0
    THEN reset_broken_timer(
            [p EXCEPT !.state.holes_count =
                          IF p.state.direction < 0
                          THEN SBits(p.state.holes_count + 1, 5)
                          ELSE p.state.holes_count,
                      !.state.last_hole_time = 1])
    ELSE LET p1 == [p EXCEPT !.state.holes_count = SBits(p.state.holes_count + 1, 5)]
         IN  IF delta > p1.detect_boundary_us
             THEN detecting_found_gap(p1)
             ELSE reset_broken_timer([p1 EXCEPT !.state.last_hole_time = 1])

\* an irq handler that restarts the calibration of a broken ear
tagtagtagear_irq_handler_heal(p, delta, is_high) ==
    CASE p.state_e = testing -> irq_handler_testing(p, delta)
      [] p.state_e = idle -> irq_handler_idle(p)
      [] p.state_e = running -> irq_handler_running(p, is_high)
      [] p.state_e = detecting -> irq_handler_detecting(p, delta)
      [] OTHER -> transition_to_testing(p)

tagtagtagear_irq_handler(p, delta, is_high) ==
    CASE p.state_e = testing -> irq_handler_testing(p, delta)
      [] p.state_e = idle -> irq_handler_idle(p)
      [] p.state_e = running -> irq_handler_running(p, is_high)
      [] p.state_e = detecting -> irq_handler_detecting(p, delta)
      [] OTHER -> p

\* a timer callback that leaves the motors as they are
tagtagtagear_broken_timer_cb_nostop(p) ==
    IF p.state_e = testing
    THEN transition_to_broken(p)
    ELSE transition_to_idle(p, -1)

\* a timer callback that gives up the position in every state
tagtagtagear_broken_timer_cb_idle(p) ==
    transition_to_idle(stop_motors(p), -1)

tagtagtagear_broken_timer_cb(p) ==
    LET p1 == stop_motors(p)
    IN  IF p1.state_e = testing
        THEN transition_to_broken(p1)
        ELSE transition_to_idle(p1, -1)

\* ----------------------------------------------------------------------
\* File operations and commands.  is_high is the encoder level read by
\* get_idle_position, is_high2 the level read by transition_to_detecting.
\* ----------------------------------------------------------------------
move_forward(p, arg, is_high) ==
    LET p1 == get_idle_position(p, is_high)
        position == p1.state.position
    IN  transition_to_running([p1 EXCEPT !.read_result = SBits(position, 8)],
                              position, arg)

move_backward(p, arg, is_high) ==
    LET p1 == get_idle_position(p, is_high)
        position == p1.state.position
    IN  transition_to_running([p1 EXCEPT !.read_result = SBits(position, 8)],
                              position, -arg)

\* goto_forward that makes a full turn when the ear is at the position asked
goto_forward_turn(p, arg, is_high, is_high2) ==
    LET p1 == get_idle_position(p, is_high)
        position == p1.state.position
        p2 == [p1 EXCEPT !.read_result = SBits(position, 8)]
    IN  IF position = -1
        THEN transition_to_detecting(p2, goto_position, 1, arg, is_high2)
        ELSE LET delta == arg - position
             IN  transition_to_running(p2, position,
                    IF delta <= 0 THEN delta + NUM_HOLES ELSE delta)

goto_forward(p, arg, is_high, is_high2) ==
    LET p1 == get_idle_position(p, is_high)
        position == p1.state.position
        p2 == [p1 EXCEPT !.read_result = SBits(position, 8)]
    IN  IF position = -1
        THEN transition_to_detecting(p2, goto_position, 1, arg, is_high2)
        ELSE LET delta == arg - position
             IN  transition_to_running(p2, position,
                    IF delta < 0 THEN delta + NUM_HOLES ELSE delta)

goto_backward(p, arg, is_high, is_high2) ==
    LET p1 == get_idle_position(p, is_high)
        position == p1.state.position
        p2 == [p1 EXCEPT !.read_result = SBits(position, 8)]
    IN  IF position = -1
        THEN transition_to_detecting(p2, goto_position, -1, arg, is_high2)
        ELSE LET delta == arg - position
             IN  transition_to_running(p2, position,
                    IF delta > 0 THEN delta - NUM_HOLES ELSE delta)

\* get_position that leaves a pending result in place when the position is
\* unknown
get_position_keep(p, run_detection, is_high, is_high2) ==
    LET p1 == get_idle_position(p, is_high)
        position == p1.state.position
    IN  IF position = -1
        THEN IF run_detection
             THEN transition_to_detecting(p1, read_position, 1, 0, is_high2)
             ELSE IF p1.read_result_available = 0
             THEN [p1 EXCEPT !.read_result_available = 1,
                             !.read_result = SBits(-1, 8)]
             ELSE p1
        ELSE [p1 EXCEPT !.read_result_available = 1,
                        !.read_result = SBits(p1.state.position, 8)]

get_position(p, run_detection, is_high, is_high2) ==
    LET p1 == get_idle_position(p, is_high)
        position == p1.state.position
    IN  IF position = -1
        THEN IF run_detection
             THEN transition_to_detecting(p1, read_position, 1, 0, is_high2)
             ELSE [p1 EXCEPT !.read_result_available = 1,
                             !.read_result = SBits(-1, 8)]
        ELSE [p1 EXCEPT !.read_result_available = 1,
                        !.read_result = SBits(p1.state.position, 8)]

\* ear_open that drops the pending read result of the session it refuses
ear_open_reset(p) ==
    IF p.opened # 0
    THEN <<[p EXCEPT !.read_result_available = 0], -EBUSY>>
    ELSE <<[p EXCEPT !.opened = SBits(1, 1)], 0>>

\* ear_open: <<struct after the call, return value>>
ear_open(p) ==
    IF p.opened # 0
    THEN <<p, -EBUSY>>
    ELSE <<[p EXCEPT !.opened = SBits(1, 1)], 0>>

ear_release(p) == [p EXCEPT !.opened = 0]

\* ear_read once wait_event_interruptible has returned 0:
\* <<struct after the call, return value, byte copied to the user or -1>>
ear_read_result(p, len) ==
    IF len <= 0 THEN <<p, 0, -1>>
    ELSE IF p.read_result_available # 0
    THEN <<[p EXCEPT !.read_result_available = 0], 1, p.read_result>>
    ELSE <<p, 0, -1>>

IsParamCmd(c) == c \in ParamCmds

\* the switch of ear_write on kbuffer[0], with arg = (unsigned char) kbuffer[1]
ear_write_switch(p, cmd, arg, is_high, is_high2) ==
    CASE cmd = CmdNop -> p
      [] cmd = CmdPlus -> move_forward(p, arg, is_high)
      [] cmd = CmdMinus -> move_backward(p, arg, is_high)
      [] cmd = CmdGotoFwd -> goto_forward(p, arg, is_high, is_high2)
      [] cmd = CmdGotoBwd -> goto_backward(p, arg, is_high, is_high2)
      [] cmd = CmdGet -> get_position(p, FALSE, is_high, is_high2)
      [] cmd = CmdDetect -> get_position(p, TRUE, is_high, is_high2)
      [] OTHER -> p

\* ear_write once wait_event_interruptible has returned 0; buf is the user
\* buffer (len = Len(buf)).  The result is the struct after the call, the
\* return value, and the command and argument given to the switch (-1: none)
ear_write_result(p, buf, is_high, is_high2) ==
    LET len == Len(buf)
        none == [p |-> p, ret |-> 0, cmd |-> -1, arg |-> -1]
        exec(cmd, arg, read) ==
            [p |-> ear_write_switch([p EXCEPT !.buffer_size = 0], cmd, arg,
                                    is_high, is_high2),
             ret |-> read, cmd |-> cmd, arg |-> arg]
    IN  IF len <= 0 THEN none
        ELSE IF p.state_e = broken THEN [none EXCEPT !.ret = -EFAULT]
        ELSE IF p.state_e = idle
        THEN IF p.buffer_size > 0
             THEN exec(p.buffer, buf[1], 1)
             ELSE IF IsParamCmd(buf[1])
             THEN IF len = 1
                  THEN [none EXCEPT !.p = [p EXCEPT !.buffer_size = SBits(1, 1),
                                                    !.buffer = buf[1]],
                                    !.ret = 1]
                  ELSE exec(buf[1], buf[2], 2)
             ELSE exec(buf[1], -1, 1)
        ELSE none

\* ear_poll that reports a pending result only while the ear moves
ear_poll_noread(p) ==
    IF p.state_e = broken
    THEN {"POLLHUP"}
    ELSE IF p.state_e = idle THEN {"POLLOUT", "POLLWRNORM"}
    ELSE IF p.read_result_available # 0 THEN {"POLLIN", "POLLRDNORM"} ELSE {}

\* ear_poll that takes a broken ear for an idle one
ear_poll_writable(p) ==
    (IF p.state_e = broken THEN {"POLLHUP"} ELSE {})
    \cup (IF p.state_e \in {idle, broken} THEN {"POLLOUT", "POLLWRNORM"} ELSE {})
    \cup (IF p.read_result_available # 0 THEN {"POLLIN", "POLLRDNORM"} ELSE {})

\* ear_poll: the set of flags of the returned mask
ear_poll(p) ==
    IF p.state_e = broken
    THEN {"POLLHUP"}
    ELSE (IF p.state_e = idle THEN {"POLLOUT", "POLLWRNORM"} ELSE {})
         \cup (IF p.read_result_available # 0 THEN {"POLLIN", "POLLRDNORM"} ELSE {})

\* ----------------------------------------------------------------------
\* The expected position of the relative moves
\* ----------------------------------------------------------------------
Mod17(v) == v % NUM_HOLES

NoExp == [pos |-> -1, rel |-> FALSE]

\* tracking (re)starts when the ear is idle at a known position
Restart(e, p) ==
    IF e.pos = -1 /\ p.state_e = idle /\ p.state.position # -1
    THEN [pos |-> p.state.position, rel |-> FALSE]
    ELSE e

\* expectation after a write that executed cmd with arg on p and read the
\* encoder level is_high
ExpAfterWrite(p, cmd, arg, is_high) ==
    IF cmd = -1 \/ cmd = CmdNop \/ cmd \notin CmdBytes THEN exp
    ELSE IF is_high /\ p.state.position # -1 THEN NoExp
    ELSE IF cmd \in {CmdGet, CmdDetect} THEN exp
    ELSE IF exp.pos = -1 THEN NoExp
    ELSE IF cmd = CmdPlus THEN [pos |-> Mod17(exp.pos + arg), rel |-> TRUE]
    ELSE IF cmd = CmdMinus THEN [pos |-> Mod17(exp.pos - arg), rel |-> TRUE]
    ELSE NoExp

\* the locals of a writing thread that is not inside a command
NoLocals == [cmd |-> -1, arg |-> -1, position |-> -1]

\* the threads that call open
Openers == {"a", "b"}
NoOpeners == [t \in Openers |-> "none"]

\* ----------------------------------------------------------------------
\* Initial state: devm_kzalloc, then init_ear, which ends with
\* transition_to_testing
\* ----------------------------------------------------------------------
ZeroPriv ==
    [state_e |-> testing, state |-> ZeroTesting,
     motor_gpios |-> MotorStop, broken_timer |-> FALSE,
     detect_boundary_us |-> 0,
     read_result_available |-> 0, read_result |-> 0,
     buffer |-> 0, buffer_size |-> 0, opened |-> 0]

init_ear == transition_to_testing(ZeroPriv)

\* record of an event: op is the handler, from the ear state it found,
\* len the length given to read or write, cmd and arg the command executed
\* by a write, high the encoder level read by get_idle_position, ret the
\* value returned, byte the byte delivered by a read
Event(op) ==
    [op |-> op, from |-> priv.state_e, len |-> -1, cmd |-> -1, arg |-> -1,
     high |-> FALSE, ret |-> 0, byte |-> -1]

Init ==
    /\ priv = init_ear
    /\ rpc = "none"
    /\ wpc = "none"
    /\ last = [op |-> "init_ear", from |-> testing, len |-> -1, cmd |-> -1,
               arg |-> -1, high |-> FALSE, ret |-> 0, byte |-> -1]
    /\ exp = NoExp
    /\ weak = FALSE
    /\ opc = NoOpeners
    /\ wlocal = NoLocals

\* ----------------------------------------------------------------------
\* Actions
\* ----------------------------------------------------------------------
Open ==
    /\ priv' = ear_open(priv)[1]
    /\ last' = [Event("ear_open") EXCEPT !.ret = ear_open(priv)[2]]
    /\ UNCHANGED <<rpc, wpc, exp, weak, opc, wlocal>>

\* the file is released once no thread is inside one of its operations
Release ==
    /\ priv.opened # 0
    /\ rpc = "none"
    /\ wpc = "none"
    /\ priv' = ear_release(priv)
    /\ last' = Event("ear_release")
    /\ UNCHANGED <<rpc, wpc, exp, weak, opc, wlocal>>

ReadDone(len) ==
    LET r == ear_read_result(priv, len)
    IN  /\ priv' = r[1]
        /\ rpc' = "none"
        /\ last' = [Event("ear_read") EXCEPT !.len = len, !.ret = r[2], !.byte = r[3]]
        /\ UNCHANGED <<wpc, exp, weak, opc, wlocal>>

\* ear_read when it does not sleep
ReadCall(len) ==
    /\ priv.opened # 0
    /\ rpc = "none"
    /\ IF priv.state_e = broken
       THEN /\ last' = [Event("ear_read") EXCEPT !.len = len, !.ret = 0]
            /\ UNCHANGED <<priv, rpc, wpc, exp, weak, opc, wlocal>>
       ELSE /\ priv.read_result_available # 0
            /\ ReadDone(len)

\* ear_read when it sleeps in wait_event_interruptible
ReadBlock ==
    /\ priv.opened # 0
    /\ rpc = "none"
    /\ priv.state_e # broken
    /\ priv.read_result_available = 0
    /\ rpc' = "wait"
    /\ last' = Event("ear_read_wait")
    /\ UNCHANGED <<priv, wpc, exp, weak, opc, wlocal>>

\* wake_up_interruptible(&read_wq) follows every assignment of 1 to
\* read_result_available, so the sleeper resumes when the condition holds
ReadResume(len) ==
    /\ rpc = "wait"
    /\ priv.read_result_available # 0
    /\ ReadDone(len)

ReadInterrupt ==
    /\ rpc = "wait"
    /\ rpc' = "none"
    /\ last' = [Event("ear_read") EXCEPT !.ret = -ERESTARTSYS]
    /\ UNCHANGED <<priv, wpc, exp, weak, opc, wlocal>>

\* the command a write of buf executes now (-1: none)
CmdOf(buf) == ear_write_result(priv, buf, FALSE, FALSE).cmd

\* the levels get_idle_position may read during a write of buf
Levels(buf) == IF CmdOf(buf) \in CmdBytes \ {CmdNop} THEN BOOLEAN ELSE {FALSE}

\* the levels transition_to_detecting may read during a write of buf
Levels2(buf, is_high) ==
    IF /\ CmdOf(buf) \in {CmdGotoFwd, CmdGotoBwd, CmdDetect}
       /\ get_idle_position(priv, is_high).state.position = -1
    THEN BOOLEAN ELSE {FALSE}

WriteDone(buf, is_high, is_high2) ==
    LET r == ear_write_result(priv, buf, is_high, is_high2)
    IN  /\ priv' = r.p
        /\ wpc' = "none"
        /\ last' = [Event("ear_write") EXCEPT !.len = Len(buf), !.cmd = r.cmd,
                        !.arg = r.arg, !.high = is_high, !.ret = r.ret]
        /\ exp' = Restart(ExpAfterWrite(priv, r.cmd, r.arg, is_high), r.p)
        /\ UNCHANGED <<rpc, weak, opc, wlocal>>

\* ear_write when it does not sleep
WriteCall(buf, is_high, is_high2) ==
    /\ priv.opened # 0
    /\ wpc = "none"
    /\ priv.state_e \in {broken, idle}
    /\ WriteDone(buf, is_high, is_high2)

\* ear_write when it sleeps in wait_event_interruptible
WriteBlock ==
    /\ priv.opened # 0
    /\ wpc = "none"
    /\ priv.state_e \notin {broken, idle}
    /\ wpc' = "wait"
    /\ last' = Event("ear_write_wait")
    /\ UNCHANGED <<priv, rpc, exp, weak, opc, wlocal>>

\* transition_to_idle and transition_to_broken call
\* wake_up_interruptible(&write_wq), so the sleeper resumes when the
\* condition holds
WriteResume(buf, is_high, is_high2) ==
    /\ wpc = "wait"
    /\ priv.state_e \in {broken, idle}
    /\ WriteDone(buf, is_high, is_high2)

WriteInterrupt ==
    /\ wpc = "wait"
    /\ wpc' = "none"
    /\ last' = [Event("ear_write") EXCEPT !.ret = -ERESTARTSYS]
    /\ UNCHANGED <<priv, rpc, exp, weak, opc, wlocal>>

\* number of long deltas recorded so far by the forward calibration
LongCount(p) ==
    Cardinality({ix \in 0 .. NUM_HOLES - 1 :
                    ix < p.state.holes_count /\ p.state.hole_deltas[ix] > DeltaShort})

\* the edge handler reads the time since the previous edge
ReadsDelta ==
    /\ priv.state_e \in {testing, detecting}
    /\ priv.state.last_hole_time # 0

\* the deltas the encoder may deliver now: the forward calibration sees at
\* most MaxLong long ones, a detection sees at most MaxHoles - 1 short ones
EdgeDeltas ==
    IF ~ReadsDelta THEN {DeltaShort}
    ELSE IF /\ priv.state_e = testing
            /\ priv.state.holes_count < NUM_HOLES
            /\ LongCount(priv) >= MaxLong
    THEN {DeltaShort}
    ELSE IF /\ priv.state_e = detecting
            /\ UBits(priv.state.holes_count, 5) + 1 >= MaxHoles
    THEN {DeltaLong}
    ELSE Deltas

\* the levels the edge handler may read now
EdgeLevels ==
    IF priv.state_e = running /\ priv.state.count = 1 THEN BOOLEAN ELSE {FALSE}

\* the next edge gives the last delta of the forward calibration
EndsForward ==
    /\ priv.state_e = testing
    /\ priv.state.last_hole_time # 0
    /\ priv.state.holes_count = NUM_HOLES - 1

\* the largest of the deltas, the largest of the other deltas, and whether
\* the first is under 1.5 times the second
Largest(hole_deltas) ==
    CHOOSE v \in {hole_deltas[ix] : ix \in 0 .. NUM_HOLES - 1} :
        \A ix \in 0 .. NUM_HOLES - 1 : hole_deltas[ix] <= v
LargestOther(hole_deltas) ==
    LET g == CHOOSE ix \in 0 .. NUM_HOLES - 1 : hole_deltas[ix] = Largest(hole_deltas)
    IN  CHOOSE v \in {hole_deltas[ix] : ix \in (0 .. NUM_HOLES - 1) \ {g}} :
            \A ix \in (0 .. NUM_HOLES - 1) \ {g} : hole_deltas[ix] <= v
WeakGap(hole_deltas) == 2 * Largest(hole_deltas) < 3 * LargestOther(hole_deltas)

\* a falling edge of the encoder
EdgeIRQ(delta, is_high) ==
    LET p == tagtagtagear_irq_handler(priv, delta, is_high)
    IN  /\ priv' = p
        /\ last' = [Event("irq") EXCEPT !.high = is_high]
        /\ exp' = IF priv.state_e = idle THEN NoExp ELSE Restart(exp, p)
        /\ weak' = IF EndsForward
                   THEN WeakGap([priv.state.hole_deltas EXCEPT ![NUM_HOLES - 1] = delta])
                   ELSE weak
        /\ UNCHANGED <<rpc, wpc, opc, wlocal>>

\* expiry of the broken timer
TimerCb ==
    /\ priv.broken_timer
    /\ priv' = tagtagtagear_broken_timer_cb([priv EXCEPT !.broken_timer = FALSE])
    /\ last' = Event("timer")
    /\ exp' = NoExp
    /\ UNCHANGED <<rpc, wpc, weak, opc, wlocal>>

Next ==
    \/ Open
    \/ Release
    \/ \E len \in Lens : ReadCall(len)
    \/ ReadBlock
    \/ \E len \in Lens : ReadResume(len)
    \/ ReadInterrupt
    \/ \E buf \in Bufs : \E is_high \in Levels(buf) :
            \E is_high2 \in Levels2(buf, is_high) : WriteCall(buf, is_high, is_high2)
    \/ WriteBlock
    \/ \E buf \in Bufs : \E is_high \in Levels(buf) :
            \E is_high2 \in Levels2(buf, is_high) : WriteResume(buf, is_high, is_high2)
    \/ WriteInterrupt
    \/ \E delta \in EdgeDeltas, is_high \in EdgeLevels : EdgeIRQ(delta, is_high)
    \/ TimerCb

Spec == Init /\ [][Next]_vars

\* ----------------------------------------------------------------------
\* Fairness: while the motors turn, time passes, so that an edge arrives
\* or the broken timer expires; a sleeper whose condition holds resumes
\* ----------------------------------------------------------------------
MotorEdge ==
    /\ priv.motor_gpios # MotorStop
    /\ \E delta \in EdgeDeltas, is_high \in EdgeLevels : EdgeIRQ(delta, is_high)

\* the ear calibrated with DeltaShort and DeltaLong, then moved by hand,
\* the file opened and the 'm' read: Idle at an unknown position
IdleUnknown ==
    [transition_to_idle(ZeroPriv, -1) EXCEPT
        !.detect_boundary_us = (DeltaShort + DeltaLong) \div 2,
        !.read_result = MovedMarker,
        !.opened = SBits(1, 1)]

InitDet ==
    /\ priv = IdleUnknown
    /\ rpc = "none"
    /\ wpc = "none"
    /\ last = [op |-> "ear_read", from |-> idle, len |-> 1, cmd |-> -1,
               arg |-> -1, high |-> FALSE, ret |-> 1, byte |-> MovedMarker]
    /\ exp = NoExp
    /\ weak = FALSE
    /\ opc = NoOpeners
    /\ wlocal = NoLocals

DetectBuf == <<CmdDetect>>

NextDet ==
    \/ \E is_high \in Levels(DetectBuf) : \E is_high2 \in Levels2(DetectBuf, is_high) :
            WriteCall(DetectBuf, is_high, is_high2)
    \/ \E len \in Lens : ReadCall(len)
    \/ ReadBlock
    \/ \E len \in Lens : ReadResume(len)
    \/ MotorEdge
    \/ TimerCb

SpecDet == InitDet /\ [][NextDet]_vars

FairSpec ==
    /\ SpecDet
    /\ WF_vars(MotorEdge \/ TimerCb)
    /\ WF_vars(\E len \in Lens : ReadResume(len))

\* ----------------------------------------------------------------------
\* The forward calibration on its own: the ear has recorded NUM_HOLES - 1
\* deltas, all CalBase but two of them, and the edges that follow end the
\* forward test and the backward test
\* ----------------------------------------------------------------------
CalDeltas == 1 .. MaxDelta
CalBase == DeltaShort

CalRuns ==
    {[ix \in 0 .. NUM_HOLES - 1 |->
        IF ix = i THEN a
        ELSE IF ix = j THEN b
        ELSE IF ix < NUM_HOLES - 1 THEN CalBase ELSE 0] :
     i \in 0 .. NUM_HOLES - 2, j \in 0 .. NUM_HOLES - 2, a \in CalDeltas, b \in CalDeltas}

InitCal ==
    /\ priv \in {[init_ear EXCEPT !.state = [ZeroTesting EXCEPT
                                    !.last_hole_time = 1,
                                    !.holes_count = NUM_HOLES - 1,
                                    !.hole_deltas = d]] : d \in CalRuns}
    /\ rpc = "none"
    /\ wpc = "none"
    /\ last = [op |-> "irq", from |-> testing, len |-> -1, cmd |-> -1,
               arg |-> -1, high |-> FALSE, ret |-> 0, byte |-> -1]
    /\ exp = NoExp
    /\ weak = FALSE
    /\ opc = NoOpeners
    /\ wlocal = NoLocals

CalEdge(delta) ==
    /\ priv.state_e = testing
    /\ EdgeIRQ(delta, FALSE)

NextCal == \E delta \in CalDeltas : CalEdge(delta)

SpecCal == InitCal /\ [][NextCal]_vars

\* ----------------------------------------------------------------------
\* Properties
\* ----------------------------------------------------------------------

\* C1: Broken is terminal.  From a Broken ear every step leaves the ear
\* Broken and the motors stopped, and a write of at least one byte returns
\* -EFAULT and changes nothing.
C1_BrokenTerminal ==
    [][priv.state_e = broken =>
          /\ priv'.state_e = broken
          /\ priv'.motor_gpios = MotorStop
          /\ (last'.op = "ear_write" /\ last'.len > 0) =>
                (last'.ret = -EFAULT /\ priv' = priv)]_vars

C1_Witness ==
    /\ priv.state_e = broken
    /\ last.op = "ear_write"
    /\ last.from = broken
    /\ last.len > 0
    /\ last.ret = -EFAULT

\* C2: once an event has been processed, the broken timer is pending if
\* and only if the ear is Testing, Detecting or Running.
C2_WatchdogArmed ==
    priv.broken_timer <=> priv.state_e \in {testing, detecting, running}

C2_Witness ==
    /\ priv.state_e = idle
    /\ ~priv.broken_timer
    /\ last.op = "ear_write"
    /\ last.cmd = CmdGotoFwd
    /\ last.arg = priv.state.position

\* C3: an expiry of the broken timer that finds the ear Running or
\* Detecting leaves it Idle at position -1 with the motors stopped.
C3_ExpiryWhileMoving ==
    (last.op = "timer" /\ last.from \in {running, detecting}) =>
        /\ priv.state_e = idle
        /\ priv.state.position = -1
        /\ priv.motor_gpios = MotorStop

C3_Witness ==
    /\ last.op = "timer"
    /\ last.from = running
    /\ priv.state_e = idle
    /\ priv.state.position = -1

\* C4: an expiry of the broken timer that finds the ear Testing leaves it
\* Broken with the motors stopped, and a Broken ear stays Broken.
C4_ExpiryWhileTesting ==
    /\ [](  (last.op = "timer" /\ last.from = testing) =>
                (priv.state_e = broken /\ priv.motor_gpios = MotorStop))
    /\ [][priv.state_e = broken => priv'.state_e = broken]_vars

\* the expiry came while the ear waited for the edge of the backward test
C4_Witness ==
    /\ last.op = "timer"
    /\ last.from = testing
    /\ priv.state_e = broken
    /\ priv.detect_boundary_us # 0

\* the deltas hold one value larger than all the others
OneWideGap(hole_deltas) ==
    \E g \in 0 .. NUM_HOLES - 1 :
        \A ix \in (0 .. NUM_HOLES - 1) \ {g} : hole_deltas[ix] < hole_deltas[g]

GapIndex(hole_deltas) ==
    CHOOSE g \in 0 .. NUM_HOLES - 1 : hole_deltas[g] = Largest(hole_deltas)

\* C5: when the forward test has passed on deltas with one wide gap at
\* gap_index, forward_position is (17 - 1 - gap_index - 3) mod 17 and the
\* detection boundary is (second largest + largest) / 2.
C5_ForwardAnalysis ==
    (/\ priv.state_e = testing
     /\ priv.state.holes_count = NUM_HOLES
     /\ OneWideGap(priv.state.hole_deltas)) =>
        /\ priv.state.forward_position =
               Mod17(17 - 1 - GapIndex(priv.state.hole_deltas) - 3)
        /\ priv.detect_boundary_us =
               (LargestOther(priv.state.hole_deltas)
                    + Largest(priv.state.hole_deltas)) \div 2

\* C6: an ear whose forward calibration had its largest delta under 1.5
\* times the largest of the other deltas never leaves Testing but to Broken.
C6_WeakGapBroken ==
    weak => priv.state_e \in {testing, broken}

\* the write of '>' with the position the idle ear is at, the encoder low
GotoHere ==
    /\ priv.state_e = idle
    /\ priv.state.position \in 0 .. NUM_HOLES - 1
    /\ last'.op = "ear_write"
    /\ last'.cmd = CmdGotoFwd
    /\ last'.arg = priv.state.position
    /\ ~last'.high

StaysHere ==
    /\ priv'.state_e = idle
    /\ priv'.state.position = priv.state.position
    /\ priv'.motor_gpios = MotorStop

\* C7 as claimed: with no read result pending, '>' p at position p leaves
\* the ear Idle at p, motors stopped, and a read result p pending.
C7_GotoHereReports ==
    [][(GotoHere /\ priv.read_result_available = 0) =>
          /\ StaysHere
          /\ priv'.read_result_available # 0
          /\ priv'.read_result = priv.state.position]_vars

\* C7 amended: '>' p at position p leaves the ear Idle at p, motors
\* stopped, and publishes nothing: a read result is pending after it only
\* if one was pending before it, and its value is then p.
C7_GotoHereKeepsPending ==
    [][GotoHere =>
          /\ StaysHere
          /\ priv'.read_result_available = priv.read_result_available
          /\ priv.read_result_available # 0 =>
                priv'.read_result = priv.state.position]_vars

C7_Witness ==
    /\ last.op = "ear_write"
    /\ last.from = idle
    /\ last.cmd = CmdGotoFwd
    /\ ~last.high
    /\ priv.state_e = idle
    /\ priv.state.position = last.arg
    /\ priv.read_result_available = 0

\* C8: '!' on an Idle ear of unknown position enters Detecting, and the
\* edge that ends this detection publishes a read result in 0 .. 16.
C8_DetectPublishesPosition ==
    [][/\ (/\ priv.state_e = idle
           /\ priv.state.position = -1
           /\ last'.op = "ear_write"
           /\ last'.cmd = CmdDetect) => priv'.state_e = detecting
       /\ (/\ priv.state_e = detecting
           /\ priv.state.post_state = read_position
           /\ last'.op = "irq"
           /\ priv'.state_e # detecting) =>
                /\ priv'.read_result_available = 1
                /\ priv'.read_result \in 0 .. NUM_HOLES - 1]_vars

\* C9: a detection started by '!' with no read result pending leads to a
\* pending read result.
C9_DetectEventuallyPublishes ==
    (/\ priv.state_e = detecting
     /\ priv.state.post_state = read_position
     /\ priv.read_result_available = 0) ~> (priv.read_result_available # 0)

\* the state the detections start from is one the driver reaches
C9_StartReached == priv = IdleUnknown /\ rpc = "none" /\ wpc = "none"

\* C10: when the ear is Idle and relative moves are expected to have
\* brought it to exp.pos, it is at exp.pos.
C10_RoundTrip ==
    (priv.state_e = idle /\ exp.pos # -1) => priv.state.position = exp.pos

\* a relative move has ended on an edge, past the wrap of the positions
C10_Witness ==
    /\ priv.state_e = idle
    /\ exp.rel
    /\ exp.pos = 0
    /\ last.op = "irq"
    /\ last.from = running

\* ----------------------------------------------------------------------
\* Absolute moves on their own: from an Idle ear of unknown position, '>'
\* and '<' with the parameters of GotoParams, the edges and the expiries
\* ----------------------------------------------------------------------
GotoParams == {0, MaxGoto \div 2, MaxGoto - 1, MaxGoto, 2 * MaxGoto - 2, 255}

\* ear_write of the two bytes c, n on an Idle ear; the move should end at
\* n mod NUM_HOLES
GotoWrite(c, n, is_high, is_high2) ==
    LET r == ear_write_result(priv, <<c, n>>, is_high, is_high2)
    IN  /\ priv.opened # 0
        /\ wpc = "none"
        /\ priv.state_e = idle
        /\ priv' = r.p
        /\ last' = [Event("ear_write") EXCEPT !.len = 2, !.cmd = r.cmd,
                        !.arg = r.arg, !.high = is_high, !.ret = r.ret]
        /\ exp' = [pos |-> Mod17(n), rel |-> FALSE]
        /\ UNCHANGED <<rpc, wpc, weak, opc, wlocal>>

NextGoto ==
    \/ \E c \in {CmdGotoFwd, CmdGotoBwd}, n \in GotoParams :
         \E is_high \in Levels(<<c, n>>) : \E is_high2 \in Levels2(<<c, n>>, is_high) :
            GotoWrite(c, n, is_high, is_high2)
    \/ \E is_high \in Levels(DetectBuf) : \E is_high2 \in Levels2(DetectBuf, is_high) :
            WriteCall(DetectBuf, is_high, is_high2)
    \/ MotorEdge
    \/ TimerCb

SpecGoto == InitDet /\ [][NextGoto]_vars

\* C11: an absolute move with parameter P that has run to completion
\* without expiry of the broken timer has left the ear Idle at P mod 17,
\* from a known position and from an unknown one.
C11_GotoEndsAtTarget ==
    (priv.state_e = idle /\ last.op = "irq" /\ exp.pos # -1) =>
        priv.state.position = exp.pos

\* C12: '<' written to an Idle ear of known position (encoder low) never
\* starts the motors forward.
C12_GotoBackwardNeverForward ==
    [][(/\ priv.state_e = idle
        /\ priv.state.position # -1
        /\ last'.op = "ear_write"
        /\ last'.cmd = CmdGotoBwd
        /\ ~last'.high) => priv'.motor_gpios \in {MotorBackward, MotorStop}]_vars

\* ----------------------------------------------------------------------
\* Commands written in one call or in two: a command byte alone, a
\* parameter byte alone, or both, to an ear that starts Idle
\* ----------------------------------------------------------------------
SplitBufs ==
    {<<c>> : c \in ParamCmds} \cup {<<n>> : n \in Params}
    \cup {<<c, n>> : c \in ParamCmds, n \in Params}

NextSplit ==
    \/ \E buf \in SplitBufs : \E is_high \in Levels(buf) :
            \E is_high2 \in Levels2(buf, is_high) : WriteCall(buf, is_high, is_high2)
    \/ MotorEdge
    \/ TimerCb

SpecSplit == InitDet /\ [][NextSplit]_vars

\* C13: when a command byte c has been buffered by a write of c alone, the
\* write of one byte N that follows gives the switch the command c with the
\* argument N and leaves the ear as the write of the two bytes c, N does.
C13_SplitWriteEquivalent ==
    [][(/\ priv.state_e = idle
        /\ priv.buffer_size # 0
        /\ last'.op = "ear_write"
        /\ last'.len = 1) =>
          \E n \in Params \cup ParamCmds, is_high2 \in BOOLEAN :
             LET r == ear_write_result([priv EXCEPT !.buffer_size = 0],
                                       <<priv.buffer, n>>, last'.high, is_high2)
             IN  /\ last'.cmd = priv.buffer
                 /\ last'.arg = n
                 /\ priv'.state_e = r.p.state_e
                 /\ priv'.state = r.p.state
                 /\ priv'.motor_gpios = r.p.motor_gpios]_vars

\* C14: poll reports write-ready exactly when the ear is Idle, read-ready
\* exactly when a read result is pending, hang-up exactly when the ear is
\* Broken.
C14_PollReflectsState ==
    /\ ({"POLLOUT", "POLLWRNORM"} \subseteq ear_poll(priv)) <=> (priv.state_e = idle)
    /\ ({"POLLOUT", "POLLWRNORM"} \cap ear_poll(priv) # {}) <=> (priv.state_e = idle)
    /\ ({"POLLIN", "POLLRDNORM"} \subseteq ear_poll(priv)) <=> (priv.read_result_available # 0)
    /\ ({"POLLIN", "POLLRDNORM"} \cap ear_poll(priv) # {}) <=> (priv.read_result_available # 0)
    /\ ("POLLHUP" \in ear_poll(priv)) <=> (priv.state_e = broken)

\* an open, idle ear with a result pending is polled write-ready and read-ready
C14_Witness ==
    /\ priv.opened # 0
    /\ priv.state_e = idle
    /\ priv.read_result_available # 0
    /\ ear_poll(priv) = {"POLLOUT", "POLLWRNORM", "POLLIN", "POLLRDNORM"}

\* C15: poll of a Broken ear reports hang-up and does not report write-ready.
C15_BrokenPollsHangUp ==
    (priv.state_e = broken) =>
        /\ "POLLHUP" \in ear_poll(priv)
        /\ {"POLLOUT", "POLLWRNORM"} \cap ear_poll(priv) = {}

C15_Witness ==
    /\ priv.opened # 0
    /\ priv.state_e = broken
    /\ ear_poll(priv) = {"POLLHUP"}

\* C16: ear_open on an ear that is open returns -EBUSY and leaves the
\* whole struct as it was.
C16_SecondOpenRejected ==
    [][(last'.op = "ear_open" /\ priv.opened # 0) =>
          (last'.ret = -EBUSY /\ priv' = priv)]_vars

\* the open refused found a result pending and a move under way
C16_Witness ==
    /\ last.op = "ear_open"
    /\ last.ret = -EBUSY
    /\ priv.opened # 0
    /\ priv.read_result_available # 0
    /\ priv.state_e = running

\* ----------------------------------------------------------------------
\* ear_open step by step: the threads of Openers call open and close while
\* the ear calibrates.  ear_open takes no lock: the test of opened and the
\* assignment to it are two steps.
\* ----------------------------------------------------------------------
\* "if (ear_data->opened) return -EBUSY;"
OpenCheck(t) ==
    /\ opc[t] = "none"
    /\ IF priv.opened # 0
       THEN /\ opc' = [opc EXCEPT ![t] = "busy"]
            /\ last' = [Event("ear_open") EXCEPT !.ret = -EBUSY]
       ELSE /\ opc' = [opc EXCEPT ![t] = "checked"]
            /\ UNCHANGED last
    /\ UNCHANGED <<priv, rpc, wpc, exp, weak, wlocal>>

\* "ear_data->opened = 1; return 0;"
OpenSet(t) ==
    /\ opc[t] = "checked"
    /\ priv' = [priv EXCEPT !.opened = SBits(1, 1)]
    /\ opc' = [opc EXCEPT ![t] = "opened"]
    /\ last' = [Event("ear_open") EXCEPT !.ret = 0]
    /\ UNCHANGED <<rpc, wpc, exp, weak, wlocal>>

\* the thread refused gives up, and may call open again
OpenRefused(t) ==
    /\ opc[t] = "busy"
    /\ opc' = [opc EXCEPT ![t] = "none"]
    /\ UNCHANGED <<priv, rpc, wpc, last, exp, weak, wlocal>>

\* the thread that holds a session closes it
OpenRelease(t) ==
    /\ opc[t] = "opened"
    /\ priv' = ear_release(priv)
    /\ opc' = [opc EXCEPT ![t] = "none"]
    /\ last' = Event("ear_release")
    /\ UNCHANGED <<rpc, wpc, exp, weak, wlocal>>

NextOpen ==
    \/ \E t \in Openers : OpenCheck(t)
    \/ \E t \in Openers : OpenSet(t)
    \/ \E t \in Openers : OpenRefused(t)
    \/ \E t \in Openers : OpenRelease(t)
    \/ MotorEdge
    \/ TimerCb

SpecOpen == Init /\ [][NextOpen]_vars

\* C17: at most one thread holds an open session of the ear.
C17_SingleSession ==
    Cardinality({t \in Openers : opc[t] = "opened"}) <= 1

\* ----------------------------------------------------------------------
\* Readers of an ear that calibrates: the file is opened and read while
\* the edges and the expiry decide between Idle and Broken
\* ----------------------------------------------------------------------
\* the edges come from the motors or, once the ear is Idle, from a hand
\* that turns it
NextTest ==
    \/ Open
    \/ \E len \in Lens : ReadCall(len)
    \/ ReadBlock
    \/ \E len \in Lens : ReadResume(len)
    \/ \E delta \in EdgeDeltas, is_high \in EdgeLevels : EdgeIRQ(delta, is_high)
    \/ TimerCb

SpecTest == Init /\ [][NextTest]_vars

FairTest ==
    /\ SpecTest
    /\ WF_vars(MotorEdge \/ TimerCb)
    /\ WF_vars(\E len \in Lens : ReadResume(len))

\* C18: a read that finds the ear Broken returns 0, and a reader asleep
\* when the ear is Broken eventually returns.
C18_BrokenReadsEnd ==
    /\ []((last.op = "ear_read" /\ last.from = broken) => last.ret = 0)
    /\ (rpc = "wait" /\ priv.state_e = broken) ~> (rpc = "none")

\* ----------------------------------------------------------------------
\* Writers of an ear that moves: the file is opened, '!' and '+' 1 are
\* written while the ear calibrates, detects and runs; a detection may
\* count any number of holes
\* ----------------------------------------------------------------------
MoveBufs == {<<CmdDetect>>, <<CmdPlus, 1>>}

\* the deltas the encoder may deliver now, a detection seeing any of them
FreeDeltas ==
    IF ReadsDelta /\ priv.state_e = detecting THEN Deltas ELSE EdgeDeltas

FreeEdge ==
    /\ priv.motor_gpios # MotorStop
    /\ \E delta \in FreeDeltas, is_high \in EdgeLevels : EdgeIRQ(delta, is_high)

MoveResume ==
    \E buf \in MoveBufs : \E is_high \in Levels(buf) :
        \E is_high2 \in Levels2(buf, is_high) : WriteResume(buf, is_high, is_high2)

NextMove ==
    \/ Open
    \/ \E buf \in MoveBufs : \E is_high \in Levels(buf) :
            \E is_high2 \in Levels2(buf, is_high) : WriteCall(buf, is_high, is_high2)
    \/ WriteBlock
    \/ MoveResume
    \/ FreeEdge
    \/ TimerCb

SpecMove == Init /\ [][NextMove]_vars

\* each edge re-arms the broken timer, so time passing brings an edge or
\* an expiry, and neither of them is bound to come
FairMove ==
    /\ SpecMove
    /\ WF_vars(FreeEdge \/ TimerCb)
    /\ WF_vars(MoveResume)

\* C19: a writer asleep executes no command while the ear is Testing,
\* Detecting or Running, and an ear that is Testing, Detecting or Running
\* eventually is Idle or Broken.
C19_MovesEnd ==
    /\ [][(wpc = "wait" /\ priv.state_e \notin {idle, broken}) =>
             last'.op # "ear_write"]_vars
    /\ (priv.state_e \in {testing, detecting, running}) ~>
            (priv.state_e \in {idle, broken})

\* C20: '?' written to an Idle ear starts no motor, leaves the ear Idle
\* with the broken timer off, and makes pending the position it is known
\* to be at, in 0 .. 16, or -1 when the position is unknown or the encoder
\* is found high, whatever was pending before.
C20_QueryReportsPosition ==
    [][(/\ priv.state_e = idle
        /\ last'.op = "ear_write"
        /\ last'.cmd = CmdGet) =>
          /\ priv'.state_e = idle
          /\ priv'.motor_gpios = MotorStop
          /\ ~priv'.broken_timer
          /\ priv'.read_result_available = 1
          /\ priv'.read_result =
                IF priv.state.position = -1 \/ last'.high
                THEN -1 ELSE priv.state.position
          /\ priv'.read_result \in -1 .. NUM_HOLES - 1
          /\ priv'.state.position = priv'.read_result]_vars

\* the '?' found the encoder high on an ear whose position was known
C20_Witness ==
    /\ last.op = "ear_write"
    /\ last.from = idle
    /\ last.cmd = CmdGet
    /\ last.high
    /\ priv.state_e = idle
    /\ priv.state.position = -1
    /\ priv.read_result_available = 1
    /\ priv.read_result = -1
    /\ exp = NoExp

\* ----------------------------------------------------------------------
\* ear_write step by step: '+' and '-' written to an Idle ear.  ear_write
\* takes no lock and does not mask the interrupt: an edge or an expiry may
\* be handled between the call of get_idle_position and the call of
\* transition_to_running.
\* ----------------------------------------------------------------------
\* ear_write up to "int position = get_idle_position(priv);"
RaceSample(cmd, arg, is_high) ==
    /\ priv.opened # 0
    /\ wpc = "none"
    /\ priv.state_e = idle
    /\ priv' = get_idle_position([priv EXCEPT !.buffer_size = 0], is_high)
    /\ wlocal' = [cmd |-> cmd, arg |-> arg, position |-> priv'.state.position]
    /\ wpc' = "sampled"
    /\ UNCHANGED <<rpc, last, exp, weak, opc>>

\* "priv->read_result = position; transition_to_running(priv, position,
\* arg);" (-arg for '-') and the return of ear_write
RaceTransition ==
    /\ wpc = "sampled"
    /\ priv' = transition_to_running(
                  [priv EXCEPT !.read_result = SBits(wlocal.position, 8)],
                  wlocal.position,
                  IF wlocal.cmd = CmdPlus THEN wlocal.arg ELSE -wlocal.arg)
    /\ wpc' = "none"
    /\ wlocal' = NoLocals
    /\ last' = [Event("ear_write") EXCEPT !.len = 2, !.cmd = wlocal.cmd,
                    !.arg = wlocal.arg, !.ret = 2]
    /\ exp' = NoExp
    /\ UNCHANGED <<rpc, weak, opc>>

NextRace ==
    \/ Open
    \/ \E cmd \in {CmdPlus, CmdMinus}, arg \in Params, is_high \in BOOLEAN :
            RaceSample(cmd, arg, is_high)
    \/ RaceTransition
    \/ \E delta \in EdgeDeltas, is_high \in EdgeLevels : EdgeIRQ(delta, is_high)
    \/ TimerCb

SpecRace == Init /\ [][NextRace]_vars

\* C21: no edge and no expiry is handled while a write is inside a
\* command, and a write starts a Running state of known position only from
\* an Idle state of known position.
C21_EventsSerialized ==
    [][/\ (wpc = "sampled") => (last'.op \notin {"irq", "timer"})
       /\ (/\ last'.op = "ear_write"
           /\ priv'.state_e = running
           /\ priv'.state.position # -1) => (priv.state.position # -1)]_vars

\* C22: in every Running state the motors are driven in the direction the
\* state records.
C22_MotorFollowsDirection ==
    (priv.state_e = running) =>
        /\ (priv.state.direction > 0) => (priv.motor_gpios = MotorForward)
        /\ (priv.state.direction < 0) => (priv.motor_gpios = MotorBackward)

\* C23: '+' and '-' written to an Idle ear of unknown position start a move
\* of unknown position (or none), and an edge handled in a Running state of
\* unknown position leaves the position unknown.
C23_UnknownStaysUnknown ==
    [][/\ (/\ priv.state_e = idle
           /\ priv.state.position = -1
           /\ last'.op = "ear_write"
           /\ last'.cmd \in {CmdPlus, CmdMinus}) =>
                (priv'.state_e \in {running, idle} /\ priv'.state.position = -1)
       /\ (/\ priv.state_e = running
           /\ priv.state.position = -1
           /\ last'.op = "irq") =>
                (priv'.state_e \in {running, idle} /\ priv'.state.position = -1)]_vars

\* C24: once the forward analysis has succeeded, the edge that ends the
\* backward test leads to Idle at (forward_position - 1) mod 17 exactly when
\* the backward delta is strictly greater than the detection boundary
\* (forward_position 14) or strictly less than it (any other
\* forward_position), and to Broken in every other case.
C24_BackwardCoherence ==
    (priv.state_e = testing /\ priv.state.holes_count = NUM_HOLES) =>
        \A backward_delta \in CalDeltas :
            LET q == irq_handler_testing(priv, backward_delta)
                coherent ==
                    IF priv.state.forward_position = NUM_HOLES - EARS_OFFZERO
                    THEN backward_delta > priv.detect_boundary_us
                    ELSE backward_delta < priv.detect_boundary_us
            IN  IF coherent
                THEN /\ q.state_e = idle
                     /\ q.state.position = Mod17(priv.state.forward_position - 1)
                ELSE q.state_e = broken

\* C25: the edge that completes a '!' detection (the gap found and the
\* follow-up motion, if any, run to its end) leaves the ear Idle at the
\* position that was published as the read result.
C25_DetectReturnsToPublished ==
    [][(/\ priv.state_e \in {detecting, running}
        /\ last'.op = "irq"
        /\ priv'.state_e = idle) =>
            (priv'.state.position = priv'.read_result)]_vars

\* C26: the edge on which Detecting finds the gap anchors the ear at
\* position 14: it enters Running at 14 with 1 to 9 steps to go in either
\* direction, or, when no step is left, Idle at 14.
C26_AnchoredBoundedRun ==
    [][(/\ priv.state_e = detecting
        /\ last'.op = "irq"
        /\ priv'.state_e # detecting) =>
            /\ priv'.state_e \in {running, idle}
            /\ priv'.state.position = NUM_HOLES - EARS_OFFZERO
            /\ (priv'.state_e = running) =>
                    /\ priv'.state.direction \in {-1, 1}
                    /\ priv'.state.count \in 1 .. 9]_vars

\* a goto's detection that found the gap with more than one step to go
C26_Witness ==
    /\ last.op = "irq"
    /\ last.from = detecting
    /\ priv.state_e = running
    /\ priv.state.position = NUM_HOLES - EARS_OFFZERO
    /\ priv.state.count > 1
    /\ priv.state.direction = -1

\* what finding the ear moved does to the Idle ear p, giving q: the position
\* becomes unknown, the ear stays Idle with the motors stopped, the marker is
\* published when no result is pending and a pending result is kept
FoundMoved(p, q) ==
    /\ q.state_e = idle
    /\ q.state.position = -1
    /\ q.motor_gpios = MotorStop
    /\ IF p.read_result_available = 0
       THEN q.read_result_available = 1 /\ q.read_result = MovedMarker
       ELSE /\ q.read_result_available = p.read_result_available
            /\ q.read_result = p.read_result

StopBufs == {<<CmdPlus, 1>>, <<CmdDetect>>, <<CmdGotoBwd, 255>>}

NextStop ==
    \/ Open
    \/ \E buf \in StopBufs : \E is_high \in Levels(buf) :
            \E is_high2 \in Levels2(buf, is_high) : WriteCall(buf, is_high, is_high2)
    \/ \E delta \in EdgeDeltas, is_high \in EdgeLevels : EdgeIRQ(delta, is_high)
    \/ TimerCb

SpecStop == Init /\ [][NextStop]_vars

\* C28: whenever the ear is Idle or Broken the motors are stopped.
C28_StoppedAtRest ==
    (priv.state_e \in {idle, broken}) => (priv.motor_gpios = MotorStop)

\* a detection that found the gap with no step left went straight to Idle
C28_Witness ==
    /\ last.op = "irq"
    /\ last.from = detecting
    /\ priv.state_e = idle
    /\ priv.motor_gpios = MotorStop

====
